---- MODULE Spec2Model ----
(***************************************************************************)
(* goplex: seven closed-form physics formulas over float64 and the         *)
(* package-level constants they read.                                      *)
(*                                                                         *)
(* A float64 is modelled bit-exactly: sign, integer significand and binary *)
(* exponent, with NaN, the infinities and signed zero, and every operation *)
(* rounded to nearest, ties to even, as the Go compiler emits it for       *)
(* amd64 (no fused multiply-add).  Significands do not fit TLC's 32-bit    *)
(* integers, so they are kept as little-endian sequences of 15-bit limbs.  *)
(***************************************************************************)
EXTENDS Integers, Sequences, FiniteSets, TLC

(***************************************************************************)
(* Unbounded naturals: little-endian limb sequences, no high zero limb.    *)
(***************************************************************************)
LimbBits == 15
LimbBase == 2^LimbBits

\* F(e) with e evaluated once, whatever the number of uses F makes of it.
Strict(e, F(_)) == CHOOSE y \in {F(x) : x \in {e}} : TRUE
Strict2(d, e, F(_, _)) == CHOOSE y \in {F(a, b) : a \in {d}, b \in {e}} : TRUE

Limb(a, i) == IF i <= Len(a) THEN a[i] ELSE 0

RECURSIVE BTrim(_)
BTrim(a) ==
  IF a = <<>> THEN a
  ELSE IF a[Len(a)] = 0 THEN BTrim(SubSeq(a, 1, Len(a) - 1)) ELSE a

RECURSIVE BFromInt(_)
BFromInt(n) ==
  IF n = 0 THEN <<>> ELSE <<n % LimbBase>> \o BFromInt(n \div LimbBase)

RECURSIVE BAddC(_, _, _, _)
BAddC(a, b, i, c) ==
  IF i > Len(a) /\ i > Len(b) THEN (IF c = 0 THEN <<>> ELSE <<c>>)
  ELSE LET s == Limb(a, i) + Limb(b, i) + c
       IN  <<s % LimbBase>> \o BAddC(a, b, i + 1, s \div LimbBase)

BAdd(a, b) == BAddC(a, b, 1, 0)

RECURSIVE BSubC(_, _, _, _)
BSubC(a, b, i, br) ==
  IF i > Len(a) THEN <<>>
  ELSE LET d == a[i] - Limb(b, i) - br
       IN  IF d < 0 THEN <<d + LimbBase>> \o BSubC(a, b, i + 1, 1)
                    ELSE <<d>> \o BSubC(a, b, i + 1, 0)

\* a - b, for a >= b
BSub(a, b) == BTrim(BSubC(a, b, 1, 0))

RECURSIVE BCmpAt(_, _, _)
BCmpAt(a, b, i) ==
  IF i = 0 THEN 0
  ELSE IF a[i] > b[i] THEN 1
  ELSE IF a[i] < b[i] THEN -1
  ELSE BCmpAt(a, b, i - 1)

\* -1, 0, 1 as a < b, a = b, a > b
BCmp(a, b) ==
  IF Len(a) > Len(b) THEN 1
  ELSE IF Len(a) < Len(b) THEN -1
  ELSE BCmpAt(a, b, Len(a))

RECURSIVE BMulSmallC(_, _, _, _)
BMulSmallC(a, k, i, c) ==
  IF i > Len(a) THEN (IF c = 0 THEN <<>> ELSE <<c>>)
  ELSE LET p == a[i] * k + c
       IN  <<p % LimbBase>> \o BMulSmallC(a, k, i + 1, p \div LimbBase)

\* a * k + c, for k < LimbBase and c < LimbBase
BMulSmall(a, k, c) == IF k = 0 THEN BFromInt(c) ELSE BMulSmallC(a, k, 1, c)

BShlLimbs(a, n) == IF a = <<>> THEN a ELSE [i \in 1..n |-> 0] \o a

RECURSIVE BMulAt(_, _, _)
BMulAt(a, b, i) ==
  IF i > Len(a) THEN <<>>
  ELSE BAdd(BShlLimbs(BMulSmall(b, a[i], 0), i - 1), BMulAt(a, b, i + 1))

BMul(a, b) == BMulAt(a, b, 1)

\* a * 2^k
BShl(a, k) == BShlLimbs(BMulSmall(a, 2^(k % LimbBits), 0), k \div LimbBits)

\* a \div 2^k
BShr(a, k) ==
  LET q == k \div LimbBits
      r == k % LimbBits
      n == Len(a) - q
  IN  IF n <= 0 THEN <<>>
      ELSE BTrim([i \in 1..n |->
                    (a[i + q] \div 2^r)
                    + (Limb(a, i + q + 1) % 2^r) * 2^(LimbBits - r)])

\* a % 2^k # 0
BLowNonZero(a, k) ==
  LET q == k \div LimbBits
      r == k % LimbBits
  IN  \/ \E i \in 1..q : Limb(a, i) # 0
      \/ Limb(a, q + 1) % 2^r # 0

\* bit i of a, bit 0 the lowest
BBit(a, i) == (Limb(a, i \div LimbBits + 1) \div 2^(i % LimbBits)) % 2

RECURSIVE SmallBitLen(_)
SmallBitLen(n) == IF n = 0 THEN 0 ELSE 1 + SmallBitLen(n \div 2)

BBitLen(a) ==
  IF a = <<>> THEN 0 ELSE (Len(a) - 1) * LimbBits + SmallBitLen(a[Len(a)])

BPow2(k) == BShl(<<1>>, k)

\* Recursion in the three loops below goes ChunkBits steps deep at a time.
ChunkBits == 8

\* n more quotient bits of r / d, for r < d: <<quotient, remainder>>
RECURSIVE BDivStep(_, _, _, _)
BDivStep(r, d, q, n) ==
  IF n = 0 THEN <<q, r>>
  ELSE LET r2 == BMulSmall(r, 2, 0)
       IN  IF BCmp(r2, d) >= 0
           THEN BDivStep(BSub(r2, d), d, BMulSmall(q, 2, 1), n - 1)
           ELSE BDivStep(r2, d, BMulSmall(q, 2, 0), n - 1)

RECURSIVE BDivBits(_, _, _, _)
BDivBits(r, d, q, n) ==
  IF n <= ChunkBits THEN BDivStep(r, d, q, n)
  ELSE Strict(BDivStep(r, d, q, ChunkBits),
              LAMBDA h : BDivBits(h[2], d, h[1], n - ChunkBits))

\* long division over the bits i..i-n+1 of a: <<quotient, remainder>>
RECURSIVE BDivModStep(_, _, _, _, _, _)
BDivModStep(a, d, i, q, r, n) ==
  IF n = 0 THEN <<q, r>>
  ELSE LET r2 == BMulSmall(r, 2, BBit(a, i))
       IN  IF BCmp(r2, d) >= 0
           THEN BDivModStep(a, d, i - 1, BMulSmall(q, 2, 1), BSub(r2, d), n - 1)
           ELSE BDivModStep(a, d, i - 1, BMulSmall(q, 2, 0), r2, n - 1)

RECURSIVE BDivModAt(_, _, _, _, _)
BDivModAt(a, d, i, q, r) ==
  IF i < ChunkBits THEN BDivModStep(a, d, i, q, r, i + 1)
  ELSE Strict(BDivModStep(a, d, i, q, r, ChunkBits),
              LAMBDA h : BDivModAt(a, d, i - ChunkBits, h[1], h[2]))

\* <<a \div d, a % d>>: the high bits of a that cannot hold d start as the remainder
BDivMod(a, d) ==
  LET low == BBitLen(a) - BBitLen(d) + 1
  IN  IF low <= 0 THEN <<<<>>, a>>
      ELSE BDivModAt(a, d, low - 1, <<>>, BShr(a, low))

\* digit-by-digit integer square root, n digits from bit p down
RECURSIVE BSqrtStep(_, _, _, _)
BSqrtStep(m, res, p, n) ==
  IF n = 0 \/ p < 0 THEN <<res, m>>
  ELSE LET t == BAdd(res, BPow2(p))
       IN  IF BCmp(m, t) >= 0
           THEN BSqrtStep(BSub(m, t), BAdd(BShr(res, 1), BPow2(p)), p - 2, n - 1)
           ELSE BSqrtStep(m, BShr(res, 1), p - 2, n - 1)

RECURSIVE BSqrtIter(_, _, _)
BSqrtIter(m, res, p) ==
  IF p < 2 * ChunkBits THEN BSqrtStep(m, res, p, ChunkBits)
  ELSE Strict(BSqrtStep(m, res, p, ChunkBits),
              LAMBDA h : BSqrtIter(h[2], h[1], p - 2 * ChunkBits))

\* <<floor(sqrt(m)), m - floor(sqrt(m))^2>>
BSqrtRem(m) ==
  LET top == BBitLen(m) - 1
  IN  IF m = <<>> THEN <<m, m>> ELSE BSqrtIter(m, <<>>, top - (top % 2))

RECURSIVE BPow10(_)
BPow10(n) ==
  IF n = 0 THEN <<1>>
  ELSE IF n % 2 = 1 THEN BMulSmall(BPow10(n - 1), 10, 0)
  ELSE Strict(BPow10(n \div 2), LAMBDA h : BMul(h, h))

\* the decimal digits ds[lo..hi], the first the most significant
RECURSIVE BDigitsAt(_, _, _)
BDigitsAt(ds, lo, hi) ==
  IF lo > hi THEN <<>>
  ELSE IF lo = hi THEN BFromInt(ds[lo])
  ELSE LET mid == (lo + hi) \div 2
       IN  Strict2(BDigitsAt(ds, lo, mid), BDigitsAt(ds, mid + 1, hi),
             LAMBDA l, r : BAdd(BMul(l, BPow10(hi - mid)), r))

BFromDigits(ds, n) == BDigitsAt(ds, 1, n)

(***************************************************************************)
(* float64.  A finite non-zero value is (-1)^s * m * 2^e with the integer  *)
(* significand m < 2^53 and e >= -1074, in the one form the format has for *)
(* it: m >= 2^52 (normal) or e = -1074 (subnormal).                        *)
(***************************************************************************)
MantBits == 53
MinExp == -1074
MaxExp == 971

NaN == [k |-> "nan", s |-> 0, m |-> <<>>, e |-> 0]
Inf(s) == [k |-> "inf", s |-> s, m |-> <<>>, e |-> 0]
Zero(s) == [k |-> "zero", s |-> s, m |-> <<>>, e |-> 0]
Num(s, m, e) == [k |-> "num", s |-> s, m |-> m, e |-> e]

IsNaN(x) == x.k = "nan"
IsInf(x) == x.k = "inf"
IsZero(x) == x.k = "zero"
IsFinite(x) == x.k \in {"zero", "num"}

Pack(s, m, e) == IF e > MaxExp THEN Inf(s) ELSE Num(s, m, e)

\* n * 2^e (n a limb sequence already evaluated) rounded to nearest, ties to even
RoundV(s, n, e) ==
  IF n = <<>> THEN Zero(s)
  ELSE LET len == BBitLen(n)
           sh == IF len - MantBits > MinExp - e THEN len - MantBits ELSE MinExp - e
       IN  IF sh <= 0 THEN Pack(s, BShl(n, -sh), e + sh)
           ELSE LET up == BBit(n, sh - 1) = 1
                          /\ (BLowNonZero(n, sh - 1) \/ BBit(n, sh) = 1)
                IN  Strict(IF up THEN BAdd(BShr(n, sh), <<1>>) ELSE BShr(n, sh),
                      LAMBDA q :
                        IF q = <<>> THEN Zero(s)
                        ELSE IF BBitLen(q) > MantBits
                             THEN Pack(s, BShr(q, 1), e + sh + 1)
                             ELSE Pack(s, q, e + sh))

Round(s, n, e) == Strict(n, LAMBDA v : RoundV(s, v, e))

FNeg(x) == IF IsNaN(x) THEN x ELSE [x EXCEPT !.s = 1 - x.s]
FAbs(x) == IF IsNaN(x) THEN x ELSE [x EXCEPT !.s = 0]

\* the order of two finite non-zero magnitudes: -1, 0, 1
MagCmp(x, y) ==
  IF x.e > y.e THEN 1 ELSE IF x.e < y.e THEN -1 ELSE BCmp(x.m, y.m)

\* the order of two values neither of which is NaN: -1, 0, 1
Rank(x) == IF IsZero(x) THEN 0 ELSE IF x.s = 1 THEN -1 ELSE 1
Cmp(x, y) ==
  IF Rank(x) # Rank(y) THEN (IF Rank(x) < Rank(y) THEN -1 ELSE 1)
  ELSE IF Rank(x) = 0 THEN 0
  ELSE LET mag == IF IsInf(x) THEN (IF IsInf(y) THEN 0 ELSE 1)
                  ELSE IF IsInf(y) THEN -1 ELSE MagCmp(x, y)
       IN  IF x.s = 1 THEN -mag ELSE mag

\* Go's ==, <, <= on float64: false whenever an operand is NaN
EqV(x, y) == ~IsNaN(x) /\ ~IsNaN(y) /\ Cmp(x, y) = 0
LtV(x, y) == ~IsNaN(x) /\ ~IsNaN(y) /\ Cmp(x, y) < 0
LeV(x, y) == ~IsNaN(x) /\ ~IsNaN(y) /\ Cmp(x, y) <= 0
FEq(x, y) == Strict2(x, y, EqV)
FLt(x, y) == Strict2(x, y, LtV)
FLe(x, y) == Strict2(x, y, LeV)

Xor(a, b) == IF a = b THEN 0 ELSE 1

MulV(x, y) ==
  IF IsNaN(x) \/ IsNaN(y) THEN NaN
  ELSE IF IsInf(x) \/ IsInf(y)
       THEN (IF IsZero(x) \/ IsZero(y) THEN NaN ELSE Inf(Xor(x.s, y.s)))
  ELSE IF IsZero(x) \/ IsZero(y) THEN Zero(Xor(x.s, y.s))
  ELSE Round(Xor(x.s, y.s), BMul(x.m, y.m), x.e + y.e)

FMul(x, y) == Strict2(x, y, MulV)

\* the significand moved up to exactly 53 bits: <<m', e'>> with m' * 2^e' = m * 2^e
Normalize(x) ==
  LET up == MantBits - BBitLen(x.m) IN <<BShl(x.m, up), x.e - up>>

DivBits == MantBits + 2

\* a / b for normalized significands: 55 quotient bits after the leading one, and
\* a last bit that is set when the division left a remainder
DivMant(a, b) ==
  LET first == IF BCmp(a, b) >= 0 THEN 1 ELSE 0
      qr == BDivBits(IF first = 1 THEN BSub(a, b) ELSE a, b, BFromInt(first), DivBits)
  IN  Strict(qr, LAMBDA h : BMulSmall(h[1], 2, IF h[2] = <<>> THEN 0 ELSE 1))

DivV(x, y) ==
  IF IsNaN(x) \/ IsNaN(y) THEN NaN
  ELSE IF IsInf(x) THEN (IF IsInf(y) THEN NaN ELSE Inf(Xor(x.s, y.s)))
  ELSE IF IsInf(y) THEN Zero(Xor(x.s, y.s))
  ELSE IF IsZero(y) THEN (IF IsZero(x) THEN NaN ELSE Inf(Xor(x.s, y.s)))
  ELSE IF IsZero(x) THEN Zero(Xor(x.s, y.s))
  ELSE Strict(<<Normalize(x), Normalize(y)>>,
         LAMBDA n : Round(Xor(x.s, y.s), DivMant(n[1][1], n[2][1]),
                          n[1][2] - n[2][2] - DivBits - 1))

FDiv(x, y) == Strict2(x, y, DivV)

\* beyond this exponent gap the smaller operand of a sum only decides the rounding
AlignMax == MantBits + 3

\* x + y for finite non-zero x and y with x.e >= y.e
AddAligned(x, y) ==
  LET gap == x.e - y.e
      a == IF gap <= AlignMax THEN BShl(x.m, gap) ELSE BShl(x.m, 3)
      b == IF gap <= AlignMax THEN y.m ELSE <<1>>
      e == IF gap <= AlignMax THEN y.e ELSE x.e - 3
  IN  Strict(<<a, b>>,
        LAMBDA n :
          IF x.s = y.s THEN Round(x.s, BAdd(n[1], n[2]), e)
          ELSE IF BCmp(n[1], n[2]) = 0 THEN Zero(0)
          ELSE IF BCmp(n[1], n[2]) > 0 THEN Round(x.s, BSub(n[1], n[2]), e)
          ELSE Round(y.s, BSub(n[2], n[1]), e))

AddV(x, y) ==
  IF IsNaN(x) \/ IsNaN(y) THEN NaN
  ELSE IF IsInf(x) THEN (IF IsInf(y) /\ x.s # y.s THEN NaN ELSE x)
  ELSE IF IsInf(y) THEN y
  ELSE IF IsZero(x) THEN (IF IsZero(y) THEN Zero(IF x.s = 1 /\ y.s = 1 THEN 1 ELSE 0) ELSE y)
  ELSE IF IsZero(y) THEN x
  ELSE IF x.e >= y.e THEN AddAligned(x, y) ELSE AddAligned(y, x)

FAdd(x, y) == Strict2(x, y, AddV)

SubV(x, y) == AddV(x, FNeg(y))

FSub(x, y) == Strict2(x, y, SubV)

SqrtV(x) ==
  IF IsNaN(x) THEN NaN
  ELSE IF IsZero(x) THEN x
  ELSE IF x.s = 1 THEN NaN
  ELSE IF IsInf(x) THEN x
  ELSE LET n == Normalize(x)
           \* an even exponent, and a radicand of 109 or 110 bits
           odd == n[2] % 2
           up == MantBits + 3 + odd
       IN  Strict(BSqrtRem(BShl(n[1], up)),
             LAMBDA h : Round(0, BMulSmall(h[1], 2, IF h[2] = <<>> THEN 0 ELSE 1),
                              (n[2] - up) \div 2 - 1))

\* math.Sqrt: the correctly rounded square root
Sqrt(x) == Strict(x, SqrtV)

(***************************************************************************)
(* Constants of the source text.  The compiler rounds a decimal constant   *)
(* to the nearest float64: Lit(ds, p) is that value for the digits ds      *)
(* times 10^p.                                                             *)
(***************************************************************************)
LitV(d, p) ==
  IF p >= 0 \/ d = <<>> THEN Round(0, BMul(d, BPow10(p)), 0)
  ELSE Strict(BPow10(-p),
         LAMBDA t :
           \* d moved up to the length of t, divided, and DivBits more quotient bits
           LET up == IF BBitLen(t) > BBitLen(d) THEN BBitLen(t) - BBitLen(d) ELSE 0
           IN  Strict(BDivMod(BShl(d, up), t),
                 LAMBDA h :
                   Strict(BDivBits(h[2], t, h[1], DivBits),
                     LAMBDA g : Round(0, BMulSmall(g[1], 2, IF g[2] = <<>> THEN 0 ELSE 1),
                                      -up - DivBits - 1))))

Lit(ds, p) == Strict(BFromDigits(ds, Len(ds)), LAMBDA d : LitV(d, p))

\* float64(k) for an int k
FromInt(k) == Round(IF k < 0 THEN 1 ELSE 0, BFromInt(IF k < 0 THEN -k ELSE k), 0)

One == FromInt(1)
Two == FromInt(2)
Half == Lit(<<5>>, -1)

\* math.Frexp: <<frac, exp>> with x = frac * 2^exp and 1/2 <= |frac| < 1
FrexpV(x) ==
  IF ~(x.k = "num") THEN <<x, 0>>
  ELSE LET n == Normalize(x) IN <<Num(x.s, n[1], -MantBits), n[2] + MantBits>>

Frexp(x) == Strict(x, FrexpV)

\* math.Ldexp: frac * 2^exp
LdexpV(frac, exp) ==
  IF ~(frac.k = "num") THEN frac ELSE Round(frac.s, frac.m, frac.e + exp)

Ldexp(frac, exp) == Strict2(frac, exp, LdexpV)

(***************************************************************************)
(* math.Log, as the Go library computes it (the FreeBSD e_log.c method;    *)
(* the amd64 assembly performs the same operations in the same order).     *)
(***************************************************************************)
Ln2Hi == Lit(<<6, 9, 3, 1, 4, 7, 1, 8, 0, 3, 6, 9, 1, 2, 3, 8, 1, 6, 4, 9, 0>>, -21)
Ln2Lo == Lit(<<1, 9, 0, 8, 2, 1, 4, 9, 2, 9, 2, 7, 0, 5, 8, 7, 7, 0, 0, 0, 2>>, -30)
L1 == Lit(<<6, 6, 6, 6, 6, 6, 6, 6, 6, 6, 6, 6, 6, 7, 3, 5, 1, 3, 0>>, -19)
L2 == Lit(<<3, 9, 9, 9, 9, 9, 9, 9, 9, 9, 9, 4, 0, 9, 4, 1, 9, 0, 8>>, -19)
L3 == Lit(<<2, 8, 5, 7, 1, 4, 2, 8, 7, 4, 3, 6, 6, 2, 3, 9, 1, 4, 9>>, -19)
L4 == Lit(<<2, 2, 2, 2, 2, 1, 9, 8, 4, 3, 2, 1, 4, 9, 7, 8, 3, 9, 6>>, -19)
L5 == Lit(<<1, 8, 1, 8, 3, 5, 7, 2, 1, 6, 1, 6, 1, 8, 0, 5, 0, 1, 2>>, -19)
L6 == Lit(<<1, 5, 3, 1, 3, 8, 3, 7, 6, 9, 9, 2, 0, 9, 3, 7, 3, 3, 2>>, -19)
L7 == Lit(<<1, 4, 7, 9, 8, 1, 9, 8, 6, 0, 5, 1, 1, 6, 5, 8, 5, 9, 1>>, -19)

\* the untyped constants math.Pi and math.Sqrt2, digit for digit: PiDigits * 10^-PiScale
PiDigits ==
  BFromDigits(<<3, 1, 4, 1, 5, 9, 2, 6, 5, 3, 5, 8, 9, 7, 9, 3, 2, 3, 8, 4, 6, 2, 6,
                4, 3, 3, 8, 3, 2, 7, 9, 5, 0, 2, 8, 8, 4, 1, 9, 7, 1, 6, 9, 3, 9, 9,
                3, 7, 5, 1, 0, 5, 8, 2, 0, 9, 7, 4, 9, 4, 4, 5, 9>>, 63)
Sqrt2Digits ==
  BFromDigits(<<1, 4, 1, 4, 2, 1, 3, 5, 6, 2, 3, 7, 3, 0, 9, 5, 0, 4, 8, 8, 0, 1, 6,
                8, 8, 7, 2, 4, 2, 0, 9, 6, 9, 8, 0, 7, 8, 5, 6, 9, 6, 7, 1, 8, 7, 5,
                3, 7, 6, 9, 4, 8, 0, 7, 3, 1, 7, 6, 6, 7, 9, 7, 4>>, 63)
PiScale == 62

\* Sqrt2/2: the constant expression is exact, and rounded once
HalfSqrt2 == LitV(BMulSmall(Sqrt2Digits, 5, 0), -(PiScale + 1))

\* the last statement: return k*Ln2Hi - ((hfsq - (s*(hfsq+R) + k*Ln2Lo)) - f)
LogResult(p) ==
  LET f == p[1]  k == p[2]  s == p[3]  R == p[4]  hfsq == p[5]
  IN  FSub(FMul(k, Ln2Hi),
           FSub(FSub(hfsq, FAdd(FMul(s, FAdd(hfsq, R)), FMul(k, Ln2Lo))), f))

\* R := t1 + t2; hfsq := 0.5 * f * f
LogR(p) ==
  LET f == p[1]  k == p[2]  s == p[3]  t1 == p[4]  t2 == p[5]
  IN  Strict(<<f, k, s, FAdd(t1, t2), FMul(FMul(Half, f), f)>>, LogResult)

\* t1 := s2 * (L1 + s4*(L3+s4*(L5+s4*L7))); t2 := s4 * (L2 + s4*(L4+s4*L6))
LogT(p) ==
  LET f == p[1]  k == p[2]  s == p[3]  s2 == p[4]  s4 == p[5]
  IN  Strict(<<f, k, s,
               FMul(s2, FAdd(L1, FMul(s4, FAdd(L3, FMul(s4, FAdd(L5, FMul(s4, L7))))))),
               FMul(s4, FAdd(L2, FMul(s4, FAdd(L4, FMul(s4, L6)))))>>, LogR)

\* s4 := s2 * s2
LogS4(p) == Strict(<<p[1], p[2], p[3], p[4], FMul(p[4], p[4])>>, LogT)

\* s2 := s * s
LogS2(p) == Strict(<<p[1], p[2], p[3], FMul(p[3], p[3])>>, LogS4)

\* s := f / (2 + f), for the reduced argument f and the exponent k
LogS(f, k) == Strict(<<f, k, FDiv(f, FAdd(Two, f))>>, LogS2)

\* f1, ki := Frexp(x); if f1 < Sqrt2/2 { f1 *= 2; ki-- }; f := f1 - 1; k := float64(ki)
LogFrexp(fr) ==
  IF LtV(fr[1], HalfSqrt2)
  THEN Strict2(FSub(FMul(fr[1], Two), One), FromInt(fr[2] - 1), LogS)
  ELSE Strict2(FSub(fr[1], One), FromInt(fr[2]), LogS)

LogV(x) ==
  IF IsNaN(x) \/ (IsInf(x) /\ x.s = 0) THEN x
  ELSE IF LtV(x, Zero(0)) THEN NaN
  ELSE IF IsZero(x) THEN Inf(1)
  ELSE Strict(FrexpV(x), LogFrexp)

Log(x) == Strict(x, LogV)

(***************************************************************************)
(* math.Pow(x, y) for an integer y, the only use the package makes of it:  *)
(* the special cases, then x^|y| by repeated squaring of Frexp's fraction, *)
(* the reciprocal for y < 0, and Ldexp.                                    *)
(***************************************************************************)
RECURSIVE PowLoop(_, _, _, _, _)
PowLoop(i, a1, ae, x1, xe) ==
  IF i = 0 THEN <<a1, ae>>
  ELSE IF xe < -(2^12) \/ 2^12 < xe THEN <<a1, ae + xe>>
  ELSE Strict2(IF i % 2 = 1 THEN FMul(a1, x1) ELSE a1, FMul(x1, x1),
         LAMBDA a, sq :
           IF LtV(sq, Half)
           THEN PowLoop(i \div 2, a, IF i % 2 = 1 THEN ae + xe ELSE ae,
                        FAdd(sq, sq), 2 * xe - 1)
           ELSE PowLoop(i \div 2, a, IF i % 2 = 1 THEN ae + xe ELSE ae, sq, 2 * xe))

PowV(x, y) ==
  LET yi == IF y < 0 THEN -y ELSE y
      odd == yi % 2 = 1
  IN  IF y = 0 \/ EqV(x, One) THEN One
      ELSE IF y = 1 THEN x
      ELSE IF IsNaN(x) THEN NaN
      ELSE IF IsZero(x)
           THEN (IF y < 0 THEN Inf(IF odd THEN x.s ELSE 0)
                 ELSE (IF odd THEN x ELSE Zero(0)))
      ELSE IF IsInf(x)
           THEN (IF x.s = 1
                 THEN (IF y < 0 THEN Zero(IF odd THEN 1 ELSE 0)
                       ELSE Inf(IF odd THEN 1 ELSE 0))
                 ELSE (IF y < 0 THEN Zero(0) ELSE Inf(0)))
      ELSE Strict(FrexpV(x),
             LAMBDA fr :
               Strict(PowLoop(yi, One, 0, fr[1], fr[2]),
                 LAMBDA r : IF y < 0 THEN Ldexp(FDiv(One, r[1]), -r[2])
                                     ELSE Ldexp(r[1], r[2])))

Pow(x, y) == Strict(x, LAMBDA v : PowV(v, y))

(***************************************************************************)
(* The package: its variables, their initialisers, the seven formulas.     *)
(***************************************************************************)
VARIABLES
  secondsInADay, c, universalGravitationConstant, planckConstant,
  boltzmannConstantJoules, boltzmannConstantEv, vacuumPermittivity, massOfTheEarth,
  pc,      \* "idle", or "returned" when a formula has been called and has returned
  fn,      \* the formula called
  args,    \* its arguments
  result,  \* the float64 it returned
  trace,   \* the divisions, logarithms and square roots it evaluated, in order
  calls,   \* how many calls the caller has made
  tpc,     \* of each thread: "idle", "running" inside a formula, or "returned"
  tcall,   \* of each thread: the formula it called and the arguments
  talone,  \* of each thread: what its call returns when nothing else runs
  tresult, \* of each thread: the float64 its call returned
  mpc,     \* main: "begin", the check it is about to run, "success", "done", "exited"
  expected, \* main's variable expected
  actual,  \* main's variable actual
  output,  \* the lines main has printed
  status,  \* the exit status of the process
  checked, \* the checks main has run, in order
  broken   \* the formulas that return a wrong value in the build main tests

globals ==
  <<secondsInADay, c, universalGravitationConstant, planckConstant,
    boltzmannConstantJoules, boltzmannConstantEv, vacuumPermittivity, massOfTheEarth>>

caller == <<pc, fn, args, result, trace, calls>>
threads == <<tpc, tcall, talone, tresult>>
harness == <<mpc, expected, actual, output, status, checked, broken>>
vars == <<globals, caller, threads, harness>>

Ten == FromInt(10)

\* vacuumPermittivity written as the literal 8.854187817e-12 instead of the
\* product 8.854187817 * math.Pow(10, -12)
InitVacuumPermittivityLiteral == Lit(<<8, 8, 5, 4, 1, 8, 7, 8, 1, 7>>, -21)

\* the initialisers of the var block, evaluated once when the package is initialised
InitSecondsInADay == Lit(<<8, 6, 4, 0, 0, 0>>, -1)
InitC == Lit(<<2, 9, 9, 7, 9, 2, 4, 5, 8, 0>>, -1)
InitUniversalGravitationConstant == Lit(<<6, 6, 7, 4, 0, 8>>, -16)
InitPlanckConstant == FMul(Lit(<<6, 6, 2, 6, 0, 6, 9, 9, 3, 4>>, -9), Pow(Ten, -34))
InitBoltzmannConstantJoules == FMul(Lit(<<1, 3, 8, 0, 6, 4, 8, 5, 2>>, -8), Pow(Ten, -23))
InitBoltzmannConstantEv == FMul(Lit(<<8, 6, 1, 7, 3, 3, 0, 3>>, -7), Pow(Ten, -5))
InitVacuumPermittivity == FMul(Lit(<<8, 8, 5, 4, 1, 8, 7, 8, 1, 7>>, -9), Pow(Ten, -12))
InitMassOfTheEarth == FMul(Lit(<<5, 9, 7, 2, 3, 7>>, -5), Pow(Ten, 24))

PosZero == Zero(0)
Three == FromInt(3)
Thousand == Lit(<<1, 0, 0, 0, 0>>, -1)

\* 6 * math.Pi and 24 * math.Pi * math.Pi * math.Pi: constant expressions, which the
\* compiler evaluates exactly and rounds once, where they meet the first float64
SixPi == LitV(BMulSmall(PiDigits, 6, 0), -PiScale)
\* 24 * math.Pi * math.Pi * math.Pi is folded by the compiler at extended
\* precision and rounded once; 21 digits of math.Pi leave the product well
\* inside the rounding interval of that double
PiPrefix == BFromDigits(<<3, 1, 4, 1, 5, 9, 2, 6, 5, 3, 5, 8, 9, 7, 9, 3, 2, 3, 8, 4, 6>>, 21)
TwentyFourPiCubed ==
  LitV(BMulSmall(BMul(BMul(PiPrefix, PiPrefix), PiPrefix), 24, 0), -(3 * 20))

\* what a call leaves behind: the value returned, the operations evaluated, and
\* the package variables, to which no formula assigns
Ret(v, tr) == [val |-> v, trace |-> tr]

\* tsiolkovskyDeltaV stopping the program where the mass ratio has no logarithm:
\* no float64 comes back
tsiolkovskyDeltaVPanicking(Ve, m0, mf) ==
  IF FEq(mf, PosZero) THEN Ret(PosZero, <<>>)
  ELSE
    Strict(FDiv(m0, mf), LAMBDA ratioOfInitialToDryMass :
      IF FLe(ratioOfInitialToDryMass, PosZero)
      THEN Ret([k |-> "panic", s |-> 0, m |-> <<>>, e |-> 0], << <<"div", m0, mf>> >>)
      ELSE
        Strict(Log(ratioOfInitialToDryMass), LAMBDA nlogOfMassRatio :
          Ret(FMul(Ve, nlogOfMassRatio),
              << <<"div", m0, mf>>, <<"log", ratioOfInitialToDryMass>> >>)))

\* tsiolkovskyDeltaV with the mf == 0 check left out
tsiolkovskyDeltaVUnguarded(Ve, m0, mf) ==
  Strict(FDiv(m0, mf), LAMBDA ratioOfInitialToDryMass :
  Strict(Log(ratioOfInitialToDryMass), LAMBDA nlogOfMassRatio :
    Ret(FMul(Ve, nlogOfMassRatio),
        << <<"div", m0, mf>>, <<"log", ratioOfInitialToDryMass>> >>)))

\* tsiolkovskyDeltaV with the mass ratio upside down: mf / m0
tsiolkovskyDeltaVInverted(Ve, m0, mf) ==
  IF FEq(mf, PosZero) THEN Ret(PosZero, <<>>)
  ELSE
    Strict(FDiv(mf, m0), LAMBDA ratioOfInitialToDryMass :
    Strict(Log(ratioOfInitialToDryMass), LAMBDA nlogOfMassRatio :
      Ret(FMul(Ve, nlogOfMassRatio),
          << <<"div", mf, m0>>, <<"log", ratioOfInitialToDryMass>> >>)))

tsiolkovskyDeltaV(Ve, m0, mf) ==
  IF FEq(mf, PosZero) THEN Ret(PosZero, <<>>)
  ELSE
    Strict(FDiv(m0, mf), LAMBDA ratioOfInitialToDryMass :
    Strict(Log(ratioOfInitialToDryMass), LAMBDA nlogOfMassRatio :
      Ret(FMul(Ve, nlogOfMassRatio),
          << <<"div", m0, mf>>, <<"log", ratioOfInitialToDryMass>> >>)))

\* photonEnergy with the speed of light left out of the product
photonEnergyWithoutC(l) ==
  IF FEq(l, PosZero) THEN Ret(PosZero, <<>>)
  ELSE Ret(FDiv(planckConstant, l), << <<"div", planckConstant, l>> >>)

\* photonEnergy with the l == 0 check left out
photonEnergyUnguarded(l) ==
  Strict(FMul(planckConstant, c), LAMBDA hc :
    Ret(FDiv(hc, l), << <<"div", hc, l>> >>))

photonEnergy(l) ==
  IF FEq(l, PosZero) THEN Ret(PosZero, <<>>)
  ELSE
    Strict(FMul(planckConstant, c), LAMBDA hc :
      Ret(FDiv(hc, l), << <<"div", hc, l>> >>))

\* thermalVelocityOfHeatedGas with m == 0 missing from the check
thermalVelocityNoMassGuard(g, T, m) ==
  IF FLt(T, PosZero) \/ FEq(g, PosZero) THEN Ret(PosZero, <<>>)
  ELSE
    Strict(FDiv(One, g), LAMBDA inverseG :
    Strict(FMul(FMul(Three, boltzmannConstantEv), T), LAMBDA threeKT :
    Strict(FDiv(threeKT, m), LAMBDA boltzRatioToMass :
    Strict(Sqrt(boltzRatioToMass), LAMBDA squareOfBoltzRatio :
      Ret(FMul(inverseG, squareOfBoltzRatio),
          << <<"div", One, g>>, <<"div", threeKT, m>>,
             <<"sqrt", boltzRatioToMass>> >>)))))

\* thermalVelocityOfHeatedGas with the Boltzmann constant in J/K
thermalVelocityJoules(g, T, m) ==
  IF FLt(T, PosZero) \/ FEq(g, PosZero) \/ FEq(m, PosZero) THEN Ret(PosZero, <<>>)
  ELSE
    Strict(FDiv(One, g), LAMBDA inverseG :
    Strict(FMul(FMul(Three, boltzmannConstantJoules), T), LAMBDA threeKT :
    Strict(FDiv(threeKT, m), LAMBDA boltzRatioToMass :
    Strict(Sqrt(boltzRatioToMass), LAMBDA squareOfBoltzRatio :
      Ret(FMul(inverseG, squareOfBoltzRatio),
          << <<"div", One, g>>, <<"div", threeKT, m>>,
             <<"sqrt", boltzRatioToMass>> >>)))))

\* thermalVelocityOfHeatedGas with m <= 0 in the check where the code has m == 0
thermalVelocityGuardingNegativeMass(g, T, m) ==
  IF FLt(T, PosZero) \/ FEq(g, PosZero) \/ FLe(m, PosZero) THEN Ret(PosZero, <<>>)
  ELSE
    Strict(FDiv(One, g), LAMBDA inverseG :
    Strict(FMul(FMul(Three, boltzmannConstantEv), T), LAMBDA threeKT :
    Strict(FDiv(threeKT, m), LAMBDA boltzRatioToMass :
    Strict(Sqrt(boltzRatioToMass), LAMBDA squareOfBoltzRatio :
      Ret(FMul(inverseG, squareOfBoltzRatio),
          << <<"div", One, g>>, <<"div", threeKT, m>>,
             <<"sqrt", boltzRatioToMass>> >>)))))

thermalVelocityOfHeatedGas(g, T, m) ==
  IF FLt(T, PosZero) \/ FEq(g, PosZero) \/ FEq(m, PosZero) THEN Ret(PosZero, <<>>)
  ELSE
    Strict(FDiv(One, g), LAMBDA inverseG :
    Strict(FMul(FMul(Three, boltzmannConstantEv), T), LAMBDA threeKT :
    Strict(FDiv(threeKT, m), LAMBDA boltzRatioToMass :
    Strict(Sqrt(boltzRatioToMass), LAMBDA squareOfBoltzRatio :
      Ret(FMul(inverseG, squareOfBoltzRatio),
          << <<"div", One, g>>, <<"div", threeKT, m>>,
             <<"sqrt", boltzRatioToMass>> >>)))))

\* lorentzFactor answering v == c with the infinity of the physics
lorentzFactorInfiniteAtC(v) ==
  IF FEq(v, c) THEN Ret(Inf(0), <<>>)
  ELSE
    Strict2(FMul(v, v), FMul(c, c), LAMBDA vv, cc :
    Strict(FSub(One, FDiv(vv, cc)), LAMBDA squareFactor :
    Strict(Sqrt(squareFactor), LAMBDA sqrtFactor :
      IF FEq(sqrtFactor, PosZero)
      THEN Ret(PosZero, << <<"div", vv, cc>>, <<"sqrt", squareFactor>> >>)
      ELSE Ret(FDiv(One, sqrtFactor),
               << <<"div", vv, cc>>, <<"sqrt", squareFactor>>,
                  <<"div", One, sqrtFactor>> >>))))

\* lorentzFactor with the sqrtFactor == 0.0 check left out
lorentzFactorNoSqrtGuard(v) ==
  IF FEq(v, c) THEN Ret(PosZero, <<>>)
  ELSE
    Strict2(FMul(v, v), FMul(c, c), LAMBDA vv, cc :
    Strict(FSub(One, FDiv(vv, cc)), LAMBDA squareFactor :
    Strict(Sqrt(squareFactor), LAMBDA sqrtFactor :
      Ret(FDiv(One, sqrtFactor),
          << <<"div", vv, cc>>, <<"sqrt", squareFactor>>,
             <<"div", One, sqrtFactor>> >>))))

\* lorentzFactor with v * c where the code has v * v
lorentzFactorLinear(v) ==
  IF FEq(v, c) THEN Ret(PosZero, <<>>)
  ELSE
    Strict2(FMul(v, c), FMul(c, c), LAMBDA vv, cc :
    Strict(FSub(One, FDiv(vv, cc)), LAMBDA squareFactor :
    Strict(Sqrt(squareFactor), LAMBDA sqrtFactor :
      IF FEq(sqrtFactor, PosZero)
      THEN Ret(PosZero, << <<"div", vv, cc>>, <<"sqrt", squareFactor>> >>)
      ELSE Ret(FDiv(One, sqrtFactor),
               << <<"div", vv, cc>>, <<"sqrt", squareFactor>>,
                  <<"div", One, sqrtFactor>> >>))))

\* lorentzFactor with squareFactor <= 0 checked before the square root, where the
\* code checks sqrtFactor == 0.0 after it
lorentzFactorGuardingNegative(v) ==
  IF FEq(v, c) THEN Ret(PosZero, <<>>)
  ELSE
    Strict2(FMul(v, v), FMul(c, c), LAMBDA vv, cc :
    Strict(FSub(One, FDiv(vv, cc)), LAMBDA squareFactor :
      IF FLe(squareFactor, PosZero)
      THEN Ret(PosZero, << <<"div", vv, cc>> >>)
      ELSE Strict(Sqrt(squareFactor), LAMBDA sqrtFactor :
             Ret(FDiv(One, sqrtFactor),
                 << <<"div", vv, cc>>, <<"sqrt", squareFactor>>,
                    <<"div", One, sqrtFactor>> >>))))

lorentzFactor(v) ==
  IF FEq(v, c) THEN Ret(PosZero, <<>>)
  ELSE
    Strict2(FMul(v, v), FMul(c, c), LAMBDA vv, cc :
    Strict(FSub(One, FDiv(vv, cc)), LAMBDA squareFactor :
    Strict(Sqrt(squareFactor), LAMBDA sqrtFactor :
      IF FEq(sqrtFactor, PosZero)
      THEN Ret(PosZero, << <<"div", vv, cc>>, <<"sqrt", squareFactor>> >>)
      ELSE Ret(FDiv(One, sqrtFactor),
               << <<"div", vv, cc>>, <<"sqrt", squareFactor>>,
                  <<"div", One, sqrtFactor>> >>))))

\* abrahamLorentzForce with c squared where the code has c cubed
abrahamLorentzForceSquared(q, e0, a) ==
  IF FEq(e0, PosZero) THEN Ret(PosZero, <<>>)
  ELSE
    Strict2(FMul(q, q), FMul(FMul(FMul(SixPi, e0), c), c),
      LAMBDA squareOfCharge, chargedFieldValue :
        Ret(FMul(FDiv(squareOfCharge, chargedFieldValue), a),
            << <<"div", squareOfCharge, chargedFieldValue>> >>))

\* abrahamLorentzForce with the e0 == 0.0 check left out
abrahamLorentzForceUnguarded(q, e0, a) ==
  Strict2(FMul(q, q), FMul(FMul(FMul(FMul(SixPi, e0), c), c), c),
    LAMBDA squareOfCharge, chargedFieldValue :
      Ret(FMul(FDiv(squareOfCharge, chargedFieldValue), a),
          << <<"div", squareOfCharge, chargedFieldValue>> >>))

abrahamLorentzForce(q, e0, a) ==
  IF FEq(e0, PosZero) THEN Ret(PosZero, <<>>)
  ELSE
    Strict2(FMul(q, q), FMul(FMul(FMul(FMul(SixPi, e0), c), c), c),
      LAMBDA squareOfCharge, chargedFieldValue :
        Ret(FMul(FDiv(squareOfCharge, chargedFieldValue), a),
            << <<"div", squareOfCharge, chargedFieldValue>> >>))

\* perihelionShift with the speed of light left in m/s
perihelionShiftInMetres(L, T, e) ==
  Strict2(FMul(FMul(TwentyFourPiCubed, L), L),
          FMul(FMul(FMul(FMul(T, T), c), c), FSub(One, FMul(e, e))),
    LAMBDA dividend, divisor :
      IF FEq(divisor, PosZero) THEN Ret(PosZero, <<>>)
      ELSE Ret(FDiv(dividend, divisor), << <<"div", dividend, divisor>> >>))

\* perihelionShift with the divisor == 0.0 check left out
perihelionShiftUnguarded(L, T, e) ==
  Strict(FMul(c, Thousand), LAMBDA cInKmPerSecond :
  Strict2(FMul(FMul(TwentyFourPiCubed, L), L),
          FMul(FMul(FMul(FMul(T, T), cInKmPerSecond), cInKmPerSecond),
               FSub(One, FMul(e, e))),
    LAMBDA dividend, divisor :
      Ret(FDiv(dividend, divisor), << <<"div", dividend, divisor>> >>)))

perihelionShift(L, T, e) ==
  Strict(FMul(c, Thousand), LAMBDA cInKmPerSecond :
  Strict2(FMul(FMul(TwentyFourPiCubed, L), L),
          FMul(FMul(FMul(FMul(T, T), cInKmPerSecond), cInKmPerSecond),
               FSub(One, FMul(e, e))),
    LAMBDA dividend, divisor :
      IF FEq(divisor, PosZero) THEN Ret(PosZero, <<>>)
      ELSE Ret(FDiv(dividend, divisor), << <<"div", dividend, divisor>> >>)))

\* schwarzschildRadius checking M == 0.0 where the code checks M <= 0.0
schwarzschildRadiusZeroOnly(M) ==
  IF FEq(M, PosZero) THEN Ret(PosZero, <<>>)
  ELSE
    Strict2(FMul(c, c), FMul(FMul(Two, universalGravitationConstant), M),
      LAMBDA speedOfLightInVacSquared, ratioOfMassToGravity :
        Ret(FDiv(ratioOfMassToGravity, speedOfLightInVacSquared),
            << <<"div", ratioOfMassToGravity, speedOfLightInVacSquared>> >>))

\* schwarzschildRadius dividing by c where the code divides by c * c
schwarzschildRadiusNoSquare(M) ==
  IF FLe(M, PosZero) THEN Ret(PosZero, <<>>)
  ELSE
    Strict(FMul(FMul(Two, universalGravitationConstant), M),
      LAMBDA ratioOfMassToGravity :
        Ret(FDiv(ratioOfMassToGravity, c), << <<"div", ratioOfMassToGravity, c>> >>))

schwarzschildRadius(M) ==
  IF FLe(M, PosZero) THEN Ret(PosZero, <<>>)
  ELSE
    Strict2(FMul(c, c), FMul(FMul(Two, universalGravitationConstant), M),
      LAMBDA speedOfLightInVacSquared, ratioOfMassToGravity :
        Ret(FDiv(ratioOfMassToGravity, speedOfLightInVacSquared),
            << <<"div", ratioOfMassToGravity, speedOfLightInVacSquared>> >>))

\* the threads that call formulas at the same time
Threads == {1, 2}

\* the call of a thread that has called nothing
NoCall == [fn |-> "none", args |-> <<>>]

\* the process before main's first statement
InitProcess ==
  /\ secondsInADay = InitSecondsInADay
  /\ c = InitC
  /\ universalGravitationConstant = InitUniversalGravitationConstant
  /\ planckConstant = InitPlanckConstant
  /\ boltzmannConstantJoules = InitBoltzmannConstantJoules
  /\ boltzmannConstantEv = InitBoltzmannConstantEv
  /\ vacuumPermittivity = InitVacuumPermittivity
  /\ massOfTheEarth = InitMassOfTheEarth
  /\ pc = "idle"
  /\ fn = "none"
  /\ args = <<>>
  /\ result = PosZero
  /\ trace = <<>>
  /\ calls = 0
  /\ tpc = [t \in Threads |-> "idle"]
  /\ tcall = [t \in Threads |-> NoCall]
  /\ talone = [t \in Threads |-> PosZero]
  /\ tresult = [t \in Threads |-> PosZero]
  /\ mpc = "begin"
  /\ expected = PosZero
  /\ actual = PosZero
  /\ output = <<>>
  /\ status = 0
  /\ checked = <<>>

\* the build of the repository: every formula is the code's
Init == InitProcess /\ broken = {}

(***************************************************************************)
(* The callers.  main calls the formulas with the arguments of its seven   *)
(* checks; the other arguments are float64 values any caller may pass:     *)
(* zeroes of both signs, negative values, infinities and NaN.  A call      *)
(* draws each argument from the first NumInputs values of its list, and   *)
(* the argument of a formula of one argument from twice as many, less two. *)
(***************************************************************************)
NumInputs == 5

\* a caller makes up to MaxCalls calls, one after the other
MaxCalls == 2

NegZero == Zero(1)
TakeN(pool, n) == {pool[i] : i \in 1..(IF n < Len(pool) THEN n ELSE Len(pool))}
Take(pool) == TakeN(pool, NumInputs)
TakeOne(pool) == TakeN(pool, 2 * NumInputs - 2)

\* Ve, m0, mf of main: 17000.0, 5000.0, 3000.0
exhaustVelocities ==
  <<Lit(<<1, 7, 0, 0, 0, 0>>, -1), PosZero, FNeg(One), Inf(0), NaN, Lit(<<2, 5>>, -1)>>
initialMasses ==
  <<Lit(<<5, 0, 0, 0, 0>>, -1), PosZero, FNeg(Lit(<<5, 0, 0, 0, 0>>, -1)), Inf(0), NaN,
    Lit(<<3, 0, 0, 0, 0>>, -1)>>
finalMasses ==
  <<Lit(<<3, 0, 0, 0, 0>>, -1), PosZero, NegZero, NaN, Inf(0),
    FNeg(Lit(<<3, 0, 0, 0, 0>>, -1))>>

\* wavelength := 400.0 * math.Pow(10, -9)
wavelengths ==
  <<FMul(Lit(<<4, 0, 0, 0>>, -1), Pow(Ten, -9)), PosZero, NegZero, NaN, Inf(0),
    Lit(<<4>>, -7), FNeg(One), Num(0, <<1>>, MinExp), Inf(1), One,
    Num(1, <<1>>, MinExp)>>

\* g, T, m of main: 9.8, 3670.0, 0.81
accelerations ==
  <<Lit(<<9, 8>>, -1), PosZero, NegZero, FNeg(Lit(<<9, 8>>, -1)), NaN, Inf(0)>>
temperatures ==
  <<Lit(<<3, 6, 7, 0, 0>>, -1), FNeg(One), PosZero, NaN, Inf(0), NegZero>>
gasMasses ==
  <<Lit(<<8, 1>>, -2), PosZero, NegZero, FNeg(Lit(<<8, 1>>, -2)), NaN, Inf(0)>>

\* halfC := c / 2.0
velocities ==
  <<FDiv(c, Two), c, FNeg(c), FMul(Two, c), NaN, FAdd(c, Ldexp(One, -24)),
    Inf(0), Inf(1), PosZero, One, FNeg(FDiv(c, Two))>>

\* q, e0, a of main: 0.66666666, vacuumPermittivity, 9.8
charges ==
  <<Lit(<<6, 6, 6, 6, 6, 6, 6, 6>>, -8), PosZero, Inf(0), NaN, FNeg(One), One>>
permittivities ==
  <<vacuumPermittivity, PosZero, NegZero, NaN, FNeg(vacuumPermittivity), Inf(0)>>
chargeAccelerations ==
  <<Lit(<<9, 8>>, -1), PosZero, NaN, Inf(1), FNeg(One), One>>

\* L, T, e of main: 57909050.0, 47.362, 0.205630
semiMajorAxes ==
  <<Lit(<<5, 7, 9, 0, 9, 0, 5, 0, 0>>, -1), PosZero, NaN, Inf(0), FNeg(One), One>>
orbitalPeriods ==
  <<Lit(<<4, 7, 3, 6, 2>>, -3), PosZero, NegZero, NaN, Inf(0), One>>
eccentricities ==
  <<Lit(<<2, 0, 5, 6, 3, 0>>, -6), One, FNeg(One), PosZero, NaN, Two>>

\* schwarzschildRadius(massOfTheEarth)
masses ==
  <<massOfTheEarth, PosZero, NegZero, FNeg(One), NaN, Inf(0), Inf(1),
    Num(0, <<1>>, MinExp), One, Num(1, <<1>>, MinExp)>>

\* perihelionShift converting the package variable c to km/s in place:
\* c = c * 1000.0 where the code has cInKmPerSecond := c * 1000.0
StoresConvertingC(name, as) ==
  IF name = "perihelionShift" THEN [globals EXCEPT ![2] = FMul(c, Thousand)]
  ELSE globals

\* schwarzschildRadius squaring the package variable c in place:
\* c = c * c where the code has speedOfLightSquared := c * c
StoresSquaringC(name, as) ==
  IF name = "schwarzschildRadius" THEN [globals EXCEPT ![2] = FMul(c, c)]
  ELSE globals

\* photonEnergy keeping its product in the package variable planckConstant:
\* planckConstant = planckConstant * c where the code has
\* planckTimesSpeedOfLight := planckConstant * c
StoresPlanckTimesC(name, as) ==
  IF name = "photonEnergy" THEN [globals EXCEPT ![4] = FMul(planckConstant, c)]
  ELSE globals

\* the package variables after formula name has run on as: no formula body
\* assigns to one, each only declares locals with :=
Stores(name, as) == globals

\* the package variables become g
Leaves(g) ==
  /\ secondsInADay' = g[1]
  /\ c' = g[2]
  /\ universalGravitationConstant' = g[3]
  /\ planckConstant' = g[4]
  /\ boltzmannConstantJoules' = g[5]
  /\ boltzmannConstantEv' = g[6]
  /\ vacuumPermittivity' = g[7]
  /\ massOfTheEarth' = g[8]

\* a call runs the formula to its return: r is what it returned
Returned(name, as, r) ==
  /\ pc = "idle"
  /\ calls < MaxCalls
  /\ \E ret \in {r} :
       /\ pc' = "returned"
       /\ fn' = name
       /\ args' = as
       /\ result' = ret.val
       /\ trace' = ret.trace
       /\ calls' = calls + 1
       /\ Leaves(Stores(name, as))
  /\ UNCHANGED <<threads, harness>>

CallTsiolkovskyDeltaV ==
  \E Ve \in Take(exhaustVelocities), m0 \in Take(initialMasses), mf \in Take(finalMasses) :
    Returned("tsiolkovskyDeltaV", <<Ve, m0, mf>>, tsiolkovskyDeltaV(Ve, m0, mf))

CallPhotonEnergy ==
  \E l \in TakeOne(wavelengths) :
    Returned("photonEnergy", <<l>>, photonEnergy(l))

CallThermalVelocityOfHeatedGas ==
  \E g \in Take(accelerations), T \in Take(temperatures), m \in Take(gasMasses) :
    Returned("thermalVelocityOfHeatedGas", <<g, T, m>>,
             thermalVelocityOfHeatedGas(g, T, m))

CallLorentzFactor ==
  \E v \in TakeOne(velocities) :
    Returned("lorentzFactor", <<v>>, lorentzFactor(v))

CallAbrahamLorentzForce ==
  \E q \in Take(charges), e0 \in Take(permittivities), a \in Take(chargeAccelerations) :
    Returned("abrahamLorentzForce", <<q, e0, a>>, abrahamLorentzForce(q, e0, a))

CallPerihelionShift ==
  \E L \in Take(semiMajorAxes), T \in Take(orbitalPeriods), e \in Take(eccentricities) :
    Returned("perihelionShift", <<L, T, e>>, perihelionShift(L, T, e))

CallSchwarzschildRadius ==
  \E M \in TakeOne(masses) :
    Returned("schwarzschildRadius", <<M>>, schwarzschildRadius(M))

\* the caller has used the result and goes on to its next call
NextCall ==
  /\ pc = "returned"
  /\ pc' = "idle"
  /\ fn' = "none"
  /\ args' = <<>>
  /\ result' = PosZero
  /\ trace' = <<>>
  /\ UNCHANGED <<globals, calls, threads, harness>>

Next ==
  \/ CallTsiolkovskyDeltaV
  \/ CallPhotonEnergy
  \/ CallThermalVelocityOfHeatedGas
  \/ CallLorentzFactor
  \/ CallAbrahamLorentzForce
  \/ CallPerihelionShift
  \/ CallSchwarzschildRadius
  \/ NextCall

Spec == Init /\ [][Next]_vars

(***************************************************************************)
(* Concurrent callers.  Each thread of Threads calls formulas one after    *)
(* the other and takes no lock; a call is two steps, the call and the      *)
(* return, and the steps of the threads interleave freely.  The formula    *)
(* reads the package variables between the two steps; the model reads      *)
(* them at the return.  talone[t] is the value the call of thread t        *)
(* returns when no other thread takes a step between its call and its      *)
(* return: the value in the state of the call.                             *)
(***************************************************************************)

\* each thread draws every argument from the first NumThreadInputs of its pool
NumThreadInputs == 1

ThreadTake(pool) == TakeN(pool, NumThreadInputs)

ThreadCalls ==
  {[fn |-> "tsiolkovskyDeltaV", args |-> <<Ve, m0, mf>>] :
     Ve \in ThreadTake(exhaustVelocities), m0 \in ThreadTake(initialMasses),
     mf \in ThreadTake(finalMasses)}
  \cup {[fn |-> "photonEnergy", args |-> <<l>>] : l \in ThreadTake(wavelengths)}
  \cup {[fn |-> "thermalVelocityOfHeatedGas", args |-> <<g, T, m>>] :
          g \in ThreadTake(accelerations), T \in ThreadTake(temperatures),
          m \in ThreadTake(gasMasses)}
  \cup {[fn |-> "lorentzFactor", args |-> <<v>>] : v \in ThreadTake(velocities)}
  \cup {[fn |-> "abrahamLorentzForce", args |-> <<q, e, a>>] :
          q \in ThreadTake(charges), e \in ThreadTake(permittivities),
          a \in ThreadTake(chargeAccelerations)}
  \cup {[fn |-> "perihelionShift", args |-> <<L, T, e>>] :
          L \in ThreadTake(semiMajorAxes), T \in ThreadTake(orbitalPeriods),
          e \in ThreadTake(eccentricities)}
  \cup {[fn |-> "schwarzschildRadius", args |-> <<m>>] : m \in ThreadTake(masses)}

\* the formula name applied to the arguments as, in the current state
Apply(name, as) ==
  CASE name = "tsiolkovskyDeltaV" -> tsiolkovskyDeltaV(as[1], as[2], as[3])
    [] name = "photonEnergy" -> photonEnergy(as[1])
    [] name = "thermalVelocityOfHeatedGas" ->
         thermalVelocityOfHeatedGas(as[1], as[2], as[3])
    [] name = "lorentzFactor" -> lorentzFactor(as[1])
    [] name = "abrahamLorentzForce" -> abrahamLorentzForce(as[1], as[2], as[3])
    [] name = "perihelionShift" -> perihelionShift(as[1], as[2], as[3])
    [] name = "schwarzschildRadius" -> schwarzschildRadius(as[1])

\* thread t calls a formula; r is what the call returns when run alone
Calls(t, call, r) ==
  /\ tpc[t] = "idle"
  /\ tpc' = [tpc EXCEPT ![t] = "running"]
  /\ tcall' = [tcall EXCEPT ![t] = call]
  /\ talone' = [talone EXCEPT ![t] = r.val]
  /\ UNCHANGED <<globals, caller, tresult, harness>>

ThreadCall(t) ==
  \E call \in ThreadCalls : Calls(t, call, Apply(call.fn, call.args))

\* the call of thread t returns r
Returns(t, r) ==
  /\ tpc[t] = "running"
  /\ tpc' = [tpc EXCEPT ![t] = "returned"]
  /\ tresult' = [tresult EXCEPT ![t] = r.val]
  /\ Leaves(Stores(tcall[t].fn, tcall[t].args))
  /\ UNCHANGED <<caller, tcall, talone, harness>>

ThreadReturn(t) == Returns(t, Apply(tcall[t].fn, tcall[t].args))

\* thread t has used the result and goes on to its next call
ThreadNext(t) ==
  /\ tpc[t] = "returned"
  /\ tpc' = [tpc EXCEPT ![t] = "idle"]
  /\ tcall' = [tcall EXCEPT ![t] = NoCall]
  /\ talone' = [talone EXCEPT ![t] = PosZero]
  /\ tresult' = [tresult EXCEPT ![t] = PosZero]
  /\ UNCHANGED <<globals, caller, harness>>

NextConcurrent ==
  \E t \in Threads :
    \/ ThreadCall(t)
    \/ ThreadReturn(t)
    \/ ThreadNext(t)

SpecConcurrent == Init /\ [][NextConcurrent]_vars

(***************************************************************************)
(* The properties.  A state with pc = "returned" holds one finished call:  *)
(* fn, args, the result and the operations the call evaluated.  Equality   *)
(* of two float64 values is equality of their bits' meaning: +0 and -0     *)
(* differ and NaN equals NaN, unlike FEq, the == of the language.          *)
(***************************************************************************)
Called(name) == pc = "returned" /\ fn = name

\* the input sets for which each formula returns before computing its result
InGuardSet ==
  CASE fn = "tsiolkovskyDeltaV" -> FEq(args[3], PosZero)
    [] fn = "photonEnergy" -> FEq(args[1], PosZero)
    [] fn = "thermalVelocityOfHeatedGas" ->
         FLt(args[2], PosZero) \/ FEq(args[1], PosZero) \/ FEq(args[3], PosZero)
    [] fn = "lorentzFactor" ->
         \/ FEq(args[1], c)
         \/ FEq(Sqrt(FSub(One, FDiv(FMul(args[1], args[1]), FMul(c, c)))), PosZero)
    [] fn = "abrahamLorentzForce" -> FEq(args[2], PosZero)
    [] fn = "perihelionShift" ->
         FEq(FMul(FMul(FMul(FMul(args[2], args[2]), FMul(c, Thousand)),
                       FMul(c, Thousand)),
                  FSub(One, FMul(args[3], args[3]))), PosZero)
    [] fn = "schwarzschildRadius" -> FLe(args[1], PosZero)
    [] OTHER -> FALSE

AllFinite(as) == \A i \in DOMAIN as : IsFinite(as[i])

\* C1 as the spec states it: every call returns the 0.0 sentinel for an input of the
\* guard set, and a finite double for every other input.
C1_TwoOutcomes ==
  pc = "returned" =>
    \/ InGuardSet /\ result = PosZero
    \/ ~InGuardSet /\ IsFinite(result)

\* C1, amended: every call returns the 0.0 sentinel for an input of the guard set,
\* and for every other input a float64 that is finite, infinite or NaN: outside the
\* guard set the formula's value is returned as it is, not-a-number included.
C1_SentinelOrFormulaValue ==
  pc = "returned" =>
    \/ InGuardSet /\ result = PosZero
    \/ ~InGuardSet /\ (IsFinite(result) \/ IsInf(result) \/ IsNaN(result))

\* a call with finite arguments outside the guard set that returned no finite double
C1_Witness ==
  pc = "returned" /\ AllFinite(args) /\ ~InGuardSet /\ ~IsFinite(result)

\* C2: tsiolkovskyDeltaV(Ve, m0, mf) returns 0 for every Ve and m0 when mf == 0, and
\* has then evaluated neither m0 / mf nor the logarithm.
C2_ZeroFinalMass ==
  Called("tsiolkovskyDeltaV") /\ FEq(args[3], PosZero) =>
    result = PosZero /\ trace = <<>>

\* mf is -0 and m0 is NaN, and the call returned 0 without computing
C2_Witness ==
  /\ Called("tsiolkovskyDeltaV")
  /\ args[3] = NegZero /\ IsNaN(args[2])
  /\ result = PosZero /\ trace = <<>>

mainTsiolkovskyArgs == <<Lit(<<1, 7, 0, 0, 0, 0>>, -1), Lit(<<5, 0, 0, 0, 0>>, -1),
                         Lit(<<3, 0, 0, 0, 0>>, -1)>>
mainTsiolkovskyExpected ==
  Lit(<<8, 6, 8, 4, 0, 3, 5, 6, 0, 4, 0, 2, 1, 8, 4, 3>>, -12)

\* C3: for mf != 0, tsiolkovskyDeltaV(Ve, m0, mf) is Ve * ln(m0 / mf), and
\* tsiolkovskyDeltaV(17000.0, 5000.0, 3000.0) is 8684.035604021843.
C3_DeltaV ==
  Called("tsiolkovskyDeltaV") /\ ~FEq(args[3], PosZero) =>
    /\ result = FMul(args[1], Log(FDiv(args[2], args[3])))
    /\ args = mainTsiolkovskyArgs => result = mainTsiolkovskyExpected

C3_Witness ==
  /\ Called("tsiolkovskyDeltaV")
  /\ args = mainTsiolkovskyArgs
  /\ result = mainTsiolkovskyExpected
  /\ Len(trace) = 2

\* C4: lorentzFactor(v) returns the sentinel 0.0, and not infinity, when v == c.
C4_SentinelAtC ==
  Called("lorentzFactor") /\ FEq(args[1], c) => result = PosZero /\ ~IsInf(result)

C4_Witness ==
  Called("lorentzFactor") /\ args[1] = c /\ result = PosZero

mainLorentzExpected ==
  Lit(<<1, 1, 5, 4, 7, 0, 0, 5, 3, 8, 3, 7, 9, 2, 5, 1, 7>>, -16)

\* C5: for v != c, with s = 1 - (v*v)/(c*c) and r = sqrt(s), lorentzFactor(v) is 0.0
\* when r == 0.0 and 1/r otherwise, and lorentzFactor(c/2) is 1.1547005383792517.
C5_Factor ==
  Called("lorentzFactor") /\ ~FEq(args[1], c) =>
    LET s == FSub(One, FDiv(FMul(args[1], args[1]), FMul(c, c)))
        r == Sqrt(s)
    IN  /\ result = IF FEq(r, PosZero) THEN PosZero ELSE FDiv(One, r)
        /\ args[1] = FDiv(c, Two) => result = mainLorentzExpected

C5_Witness ==
  /\ Called("lorentzFactor")
  /\ args[1] = FDiv(c, Two)
  /\ result = mainLorentzExpected
  /\ Len(trace) = 3

\* C6: thermalVelocityOfHeatedGas(g, T, m) returns 0 whenever T < 0 or g == 0 or
\* m == 0, whatever the other arguments.
C6_ThermalGuard ==
  /\ Called("thermalVelocityOfHeatedGas")
  /\ (FLt(args[2], PosZero) \/ FEq(args[1], PosZero) \/ FEq(args[3], PosZero))
  => result = PosZero

\* m is -0 while g and T are outside the guard, and the call returned 0
C6_Witness ==
  /\ Called("thermalVelocityOfHeatedGas")
  /\ args[3] = NegZero /\ ~FEq(args[1], PosZero) /\ ~FLt(args[2], PosZero)
  /\ result = PosZero

mainThermalArgs == <<Lit(<<9, 8>>, -1), Lit(<<3, 6, 7, 0, 0>>, -1), Lit(<<8, 1>>, -2)>>
mainThermalExpected ==
  Lit(<<1, 1, 0, 4, 3, 6, 1, 9, 7, 3, 5, 5, 5, 3, 1, 1, 3>>, -17)

\* C7: outside the guard, thermalVelocityOfHeatedGas(g, T, m) is
\* (1/g) * sqrt(3 * boltzmannConstantEv * T / m), with the Boltzmann constant in eV/K
\* and not the one in J/K, and thermalVelocityOfHeatedGas(9.8, 3670.0, 0.81) is
\* 0.11043619735553113.
C7_ThermalVelocity ==
  /\ Called("thermalVelocityOfHeatedGas")
  /\ ~(FLt(args[2], PosZero) \/ FEq(args[1], PosZero) \/ FEq(args[3], PosZero))
  => /\ result = FMul(FDiv(One, args[1]),
                      Sqrt(FDiv(FMul(FMul(Three, boltzmannConstantEv), args[2]),
                                args[3])))
     /\ args = mainThermalArgs => result = mainThermalExpected

C7_Witness ==
  /\ Called("thermalVelocityOfHeatedGas")
  /\ args = mainThermalArgs
  /\ result = mainThermalExpected
  /\ boltzmannConstantEv # boltzmannConstantJoules

\* C8: schwarzschildRadius(M) returns 0.0 for every M <= 0.0, zero or negative.
C8_NoMass ==
  Called("schwarzschildRadius") /\ FLe(args[1], PosZero) => result = PosZero

\* a negative mass, and the call returned 0.0
C8_Witness ==
  Called("schwarzschildRadius") /\ FLt(args[1], PosZero) /\ result = PosZero

mainSchwarzschildExpected ==
  Lit(<<8, 8, 7, 0, 0, 6, 2, 9, 7, 4, 3, 5, 1, 3, 7, 7>>, -18)

\* C9: for M > 0, schwarzschildRadius(M) is (2 * G * M) / (c * c) with G the
\* universal gravitation constant, and schwarzschildRadius(massOfTheEarth) is
\* 0.008870062974351377.
C9_Radius ==
  Called("schwarzschildRadius") /\ FLt(PosZero, args[1]) =>
    /\ result = FDiv(FMul(FMul(Two, universalGravitationConstant), args[1]), FMul(c, c))
    /\ args[1] = massOfTheEarth => result = mainSchwarzschildExpected

C9_Witness ==
  /\ Called("schwarzschildRadius")
  /\ args[1] = massOfTheEarth
  /\ result = mainSchwarzschildExpected

\* C10: photonEnergy(wavelength) returns 0 when wavelength == 0, and no call of it
\* divides by a wavelength that is zero.
C10_NoZeroDivisor ==
  Called("photonEnergy") =>
    /\ FEq(args[1], PosZero) => result = PosZero
    /\ \A i \in DOMAIN trace : trace[i][1] = "div" => ~FEq(trace[i][3], PosZero)

\* the wavelength is -0, and the call returned 0 without dividing
C10_Witness ==
  Called("photonEnergy") /\ args[1] = NegZero /\ result = PosZero /\ trace = <<>>

\* wavelength := 400.0 * math.Pow(10, -9), expected = 4.966114480984394 * math.Pow(10, -19)
mainWavelength == FMul(Lit(<<4, 0, 0, 0>>, -1), Pow(Ten, -9))
mainPhotonExpected == FMul(Lit(<<4, 9, 6, 6, 1, 1, 4, 4, 8, 0, 9, 8, 4, 3, 9, 4>>, -15), Pow(Ten, -19))
\* the float64 literals 400e-9 and 4.966114480984394e-19
Wavelength400nm == Lit(<<4>>, -7)
PhotonEnergy400nm == Lit(<<4, 9, 6, 6, 1, 1, 4, 4, 8, 0, 9, 8, 4, 3, 9, 4>>, -34)

\* C11 as the spec states it: for wavelength != 0, photonEnergy(wavelength) is
\* planckConstant * c / wavelength, and photonEnergy(400e-9) is
\* 4.966114480984394e-19.
C11_PhotonEnergyOf400nm ==
  Called("photonEnergy") /\ ~FEq(args[1], PosZero) =>
    /\ result = FDiv(FMul(planckConstant, c), args[1])
    /\ args[1] = Wavelength400nm => result = PhotonEnergy400nm

\* C11, amended: for wavelength != 0, photonEnergy(wavelength) is
\* planckConstant * c / wavelength, and photonEnergy(400.0 * math.Pow(10, -9)), the
\* call of main, is 4.966114480984394e-19.
C11_PhotonEnergy ==
  Called("photonEnergy") /\ ~FEq(args[1], PosZero) =>
    /\ result = FDiv(FMul(planckConstant, c), args[1])
    /\ args[1] = mainWavelength =>
         result = PhotonEnergy400nm /\ result = mainPhotonExpected

\* the call of main, whose wavelength is not the float64 400e-9
C11_Witness ==
  /\ Called("photonEnergy")
  /\ args[1] = mainWavelength /\ mainWavelength # Wavelength400nm
  /\ result = PhotonEnergy400nm

\* the divisor of the claims about perihelionShift, from its factors
SquareOfPeriodAndSpeed(T) ==
  FMul(FMul(FMul(T, T), FMul(c, Thousand)), FMul(c, Thousand))
OneLessSquare(e) == FSub(One, FMul(e, e))
Divisor(T, e) == FMul(SquareOfPeriodAndSpeed(T), OneLessSquare(e))
NoDivisionByZero ==
  \A i \in DOMAIN trace : trace[i][1] = "div" => ~FEq(trace[i][3], PosZero)

\* C12 as the spec states it: perihelionShift(L, T, e) returns 0.0 for every L when
\* the divisor T*T*(c*1000)*(c*1000)*(1 - e*e) equals 0.0, in particular when T == 0
\* or e == 1 or e == -1, and divides only by a divisor that is not 0.0.
C12_ZeroPeriodOrUnitEccentricity ==
  Called("perihelionShift") =>
    /\ FEq(Divisor(args[2], args[3]), PosZero) => result = PosZero
    /\ FEq(args[2], PosZero) \/ FEq(args[3], One) \/ FEq(args[3], FNeg(One)) =>
         result = PosZero
    /\ NoDivisionByZero

\* C12, amended: perihelionShift(L, T, e) returns 0.0 for every L when the divisor
\* equals 0.0, in particular when T == 0 and 1 - e*e is finite, or when e is 1 or -1
\* and T*T*(c*1000)*(c*1000) is finite; it divides only by a divisor that is not 0.0.
C12_ZeroDivisor ==
  Called("perihelionShift") =>
    /\ FEq(Divisor(args[2], args[3]), PosZero) => result = PosZero /\ trace = <<>>
    /\ FEq(args[2], PosZero) /\ IsFinite(OneLessSquare(args[3])) => result = PosZero
    /\ (FEq(args[3], One) \/ FEq(args[3], FNeg(One)))
         /\ IsFinite(SquareOfPeriodAndSpeed(args[2])) => result = PosZero
    /\ NoDivisionByZero

\* T is 0 and L is NaN, and the call returned 0.0 without dividing
C12_Witness ==
  /\ Called("perihelionShift")
  /\ IsZero(args[2]) /\ IsNaN(args[1]) /\ IsFinite(args[3])
  /\ result = PosZero /\ trace = <<>>

mainPerihelionArgs ==
  <<Lit(<<5, 7, 9, 0, 9, 0, 5, 0, 0>>, -1), Lit(<<4, 7, 3, 6, 2>>, -3),
    Lit(<<2, 0, 5, 6, 3, 0>>, -6)>>
mainPerihelionExpected ==
  Lit(<<6, 5, 8, 8, 4, 1, 7, 9, 4, 5, 4, 7, 6, 6, 7, 7, 8>>, -18)

mainAbrahamLorentzArgs ==
  <<Lit(<<6, 6, 6, 6, 6, 6, 6, 6>>, -8), vacuumPermittivity, Lit(<<9, 8>>, -1)>>
mainAbrahamLorentzExpected ==
  FMul(Lit(<<9, 6, 8, 5, 7, 1, 2, 7, 9, 3, 4, 5, 8, 8, 8, 4, 9>>, -16), Pow(Ten, -16))
\* the float64 literal 9.6857127934588849e-16
AbrahamLorentzOfUpQuark ==
  Lit(<<9, 6, 8, 5, 7, 1, 2, 7, 9, 3, 4, 5, 8, 8, 8, 4, 9>>, -32)

\* C14: abrahamLorentzForce(q, e0, a) is 0.0 when e0 == 0.0 and otherwise
\* (q*q) / (6 * pi * e0 * c^3) * a, for every q and a, and
\* abrahamLorentzForce(0.66666666, vacuumPermittivity, 9.8) is
\* 9.6857127934588849e-16.
C14_Force ==
  Called("abrahamLorentzForce") =>
    /\ result = IF FEq(args[2], PosZero) THEN PosZero
                ELSE FMul(FDiv(FMul(args[1], args[1]),
                               FMul(FMul(FMul(FMul(SixPi, args[2]), c), c), c)),
                          args[3])
    /\ args = mainAbrahamLorentzArgs =>
         result = AbrahamLorentzOfUpQuark /\ result = mainAbrahamLorentzExpected

C14_Witness ==
  /\ Called("abrahamLorentzForce")
  /\ args = mainAbrahamLorentzArgs
  /\ result = AbrahamLorentzOfUpQuark
  /\ Len(trace) = 1

\* a float64: NaN, an infinity, a zero, or a significand of up to 53 bits with an
\* exponent in range
IsFloat64(x) ==
  /\ DOMAIN x = {"k", "s", "m", "e"}
  /\ x.k \in {"nan", "inf", "zero", "num"}
  /\ x.s \in {0, 1}
  /\ x.k = "num" =>
       x.m # <<>> /\ BBitLen(x.m) <= MantBits /\ x.e \in MinExp..MaxExp

\* C15: every formula is total: whatever the inputs (zero, negative and guard-set
\* values included), the call ends, after a handful of floating-point operations,
\* by returning a float64; there is no other way out of a call.
C15_Total ==
  /\ pc \in {"idle", "returned"}
  /\ pc = "returned" => IsFloat64(result) /\ Len(trace) <= 3

\* the logarithm of 0 / mf: the call returned an infinity
C15_Witness ==
  /\ Called("tsiolkovskyDeltaV")
  /\ IsZero(args[2]) /\ ~FEq(args[3], PosZero)
  /\ IsInf(result) /\ IsFloat64(result)

\* the values the var block gives the package variables
InitialGlobals ==
  <<InitSecondsInADay, InitC, InitUniversalGravitationConstant, InitPlanckConstant,
    InitBoltzmannConstantJoules, InitBoltzmannConstantEv, InitVacuumPermittivity,
    InitMassOfTheEarth>>

\* C16: after any sequence of calls of the seven formulas, the eight package
\* variables still hold their initial values: no formula assigns to any of them.
C16_ConstantsKept == globals = InitialGlobals

\* a second call has returned, and the constants are what they were
C16_Witness ==
  pc = "returned" /\ calls >= 2 /\ c = InitC /\ globals = InitialGlobals

\* C17: every formula is deterministic: two calls with identical inputs, made at
\* any two points of a run (other calls, of either thread, may come between
\* them), return bit-identical outputs.
C17_Deterministic ==
  \A t, u \in Threads :
    (tpc[t] = "returned" /\ tpc[u] = "returned" /\ tcall[t] = tcall[u])
      => tresult[t] = tresult[u]

\* both threads hold the result of the same call of schwarzschildRadius
C17_Witness ==
  /\ tpc[1] = "returned" /\ tpc[2] = "returned"
  /\ tcall[1].fn = "schwarzschildRadius" /\ tcall[1] = tcall[2]
  /\ tresult[1].k = "num" /\ tresult[1] = tresult[2]

\* C18: when several threads call formulas concurrently without any lock,
\* under every interleaving each call returns the value it returns when run
\* alone: the calls only read the package variables, which keep their values.
C18_ConcurrentAsAlone ==
  /\ \A t \in Threads : tpc[t] = "returned" => tresult[t] = talone[t]
  /\ globals = InitialGlobals

\* perihelionShift has returned in thread 1 while a call of photonEnergy, which
\* reads c too, is in progress in thread 2
C18_Witness ==
  /\ tpc[1] = "returned" /\ tcall[1].fn = "perihelionShift"
  /\ tpc[2] = "running" /\ tcall[2].fn = "photonEnergy"
  /\ tresult[1] = talone[1] /\ tresult[1].k = "num"

\* the doubles nearest the decimals of the constants table
TableSecondsInADay == Lit(<<8, 6, 4, 0, 0>>, 0)
TableC == Lit(<<2, 9, 9, 7, 9, 2, 4, 5, 8>>, 0)
TableGravitationalConstant == Lit(<<6, 6, 7, 4, 0, 8>>, -16)
TablePlanckConstant == Lit(<<6, 6, 2, 6, 0, 6, 9, 9, 3, 4>>, -43)
TableBoltzmannConstantJoules == Lit(<<1, 3, 8, 0, 6, 4, 8, 5, 2>>, -31)
TableBoltzmannConstantEv == Lit(<<8, 6, 1, 7, 3, 3, 0, 3>>, -12)
TableVacuumPermittivity == Lit(<<8, 8, 5, 4, 1, 8, 7, 8, 1, 7>>, -21)
TableMassOfTheEarth == Lit(<<5, 9, 7, 2, 3, 7>>, 19)

\* C19 as the spec states it: the eight constants are exactly the values of the table.
C19_TableValues ==
  /\ secondsInADay = TableSecondsInADay
  /\ c = TableC
  /\ universalGravitationConstant = TableGravitationalConstant
  /\ planckConstant = TablePlanckConstant
  /\ boltzmannConstantJoules = TableBoltzmannConstantJoules
  /\ boltzmannConstantEv = TableBoltzmannConstantEv
  /\ vacuumPermittivity = TableVacuumPermittivity
  /\ massOfTheEarth = TableMassOfTheEarth

\* C19: from before the first call on, five constants are the doubles nearest
\* the table's decimals (secondsInADay, c, the gravitational constant,
\* planckConstant, the mass of the Earth), and the three others, which the var
\* block computes as a mantissa times math.Pow(10, n), are doubles next to the
\* nearest ones: boltzmannConstantJoules is 1.3806485200000002e-23,
\* boltzmannConstantEv 8.617330300000001e-05, vacuumPermittivity
\* 8.854187816999999e-12.
C19_Constants ==
  /\ secondsInADay = TableSecondsInADay
  /\ c = TableC
  /\ universalGravitationConstant = TableGravitationalConstant
  /\ planckConstant = TablePlanckConstant
  /\ massOfTheEarth = TableMassOfTheEarth
  /\ boltzmannConstantJoules = Lit(<<1, 3, 8, 0, 6, 4, 8, 5, 2, 0, 0, 0, 0, 0, 0, 0, 2>>, -39)
  /\ boltzmannConstantJoules # TableBoltzmannConstantJoules
  /\ boltzmannConstantEv = Lit(<<8, 6, 1, 7, 3, 3, 0, 3, 0, 0, 0, 0, 0, 0, 0, 1>>, -20)
  /\ boltzmannConstantEv # TableBoltzmannConstantEv
  /\ vacuumPermittivity = Lit(<<8, 8, 5, 4, 1, 8, 7, 8, 1, 6, 9, 9, 9, 9, 9, 9>>, -27)
  /\ vacuumPermittivity # TableVacuumPermittivity

\* main's call of abrahamLorentzForce has read vacuumPermittivity, the double
\* below the table's, and returned the value main expects
C19_Witness ==
  /\ Called("abrahamLorentzForce")
  /\ args = mainAbrahamLorentzArgs /\ args[2] = vacuumPermittivity
  /\ vacuumPermittivity # TableVacuumPermittivity
  /\ result = mainAbrahamLorentzExpected

\* a call of thermalVelocityOfHeatedGas with m negative, T >= 0 and g != 0
NegativeMass ==
  /\ Called("thermalVelocityOfHeatedGas")
  /\ FLt(args[3], PosZero) /\ FLe(PosZero, args[2]) /\ ~FEq(args[1], PosZero)

Superluminal == Called("lorentzFactor") /\ FLt(FMul(c, c), FMul(args[1], args[1]))

\* C21: for every superluminal v (v*v > c*c, so s = 1 - (v*v)/(c*c) < 0),
\* lorentzFactor(v) returns not-a-number: v == c is false, the square root of
\* the negative s is not-a-number, which is not == 0.0, and 1 / NaN is returned.
C21_SuperluminalIsNaN ==
  Superluminal =>
    /\ IsNaN(result)
    /\ Len(trace) = 3
    /\ trace[2][1] = "sqrt" /\ FLt(trace[2][2], PosZero)
    /\ trace[3][1] = "div" /\ IsNaN(trace[3][3])

\* the double next above c: v*v is two units in the last place above c*c and
\* s is -2^-51
C21_Witness ==
  /\ Superluminal
  /\ args[1] = FAdd(c, Ldexp(One, -24)) /\ FLt(c, args[1])
  /\ trace[2][2] = FNeg(Ldexp(One, -51))
  /\ IsNaN(result)

(***************************************************************************)
(* main, the self-test: seven checks, each an assignment to expected, a    *)
(* call assigned to actual and "if expected != actual", which prints three *)
(* lines and calls os.Exit(1).  In the repository's build every check      *)
(* matches, so the exit is taken only when the formulas under test are not *)
(* the repository's: main is run against every build in which the          *)
(* formulas of the set broken return a wrong value.                        *)
(***************************************************************************)

\* the seven checks in the order of main's text
mainOrder ==
  <<"tsiolkovskyDeltaV", "photonEnergy", "thermalVelocityOfHeatedGas",
    "lorentzFactor", "abrahamLorentzForce", "perihelionShift", "schwarzschildRadius">>

mainFormulas == {mainOrder[i] : i \in DOMAIN mainOrder}

\* what a broken formula may return instead of the expected value
WrongValues == {PosZero, NaN}

InitMain == InitProcess /\ broken \in SUBSET mainFormulas

\* fmt.Println("Goplex tests begin now...")
MainBegin ==
  /\ mpc = "begin"
  /\ output' = Append(output, <<"Goplex tests begin now...">>)
  /\ mpc' = mainOrder[1]
  /\ UNCHANGED <<globals, caller, threads, expected, actual, status, checked, broken>>

\* one check with os.Exit(1) left out: main prints the failure and goes on
ChecksWithoutExit(name, next, message, exp, act) ==
  /\ mpc = name
  /\ \E a \in (IF name \in broken THEN WrongValues ELSE {act}) :
       /\ expected' = exp
       /\ actual' = a
       /\ checked' = Append(checked, name)
       /\ output' = IF ~FEq(exp, a)
                    THEN output \o << <<message>>, <<"Expected: ", exp>>,
                                      <<"Calculated: ", a>> >>
                    ELSE output
       /\ mpc' = next
  /\ UNCHANGED <<globals, caller, threads, status, broken>>

\* one check: expected = exp; actual = act; if expected != actual { three
\* Println; os.Exit(1) }
Checks(name, next, message, exp, act) ==
  /\ mpc = name
  /\ \E a \in (IF name \in broken THEN WrongValues ELSE {act}) :
       /\ expected' = exp
       /\ actual' = a
       /\ checked' = Append(checked, name)
       /\ IF ~FEq(exp, a)
          THEN /\ output' = output \o << <<message>>, <<"Expected: ", exp>>,
                                         <<"Calculated: ", a>> >>
               /\ status' = 1
               /\ mpc' = "exited"
          ELSE /\ output' = output
               /\ status' = status
               /\ mpc' = next
  /\ UNCHANGED <<globals, caller, threads, broken>>

CheckTsiolkovskyDeltaV ==
  Checks("tsiolkovskyDeltaV", "photonEnergy", "Tsiolkovsky Delta-V test failed!",
         mainTsiolkovskyExpected,
         tsiolkovskyDeltaV(mainTsiolkovskyArgs[1], mainTsiolkovskyArgs[2],
                           mainTsiolkovskyArgs[3]).val)

CheckPhotonEnergy ==
  Checks("photonEnergy", "thermalVelocityOfHeatedGas", "Photon Energy test failed!",
         mainPhotonExpected, photonEnergy(mainWavelength).val)

CheckThermalVelocity ==
  Checks("thermalVelocityOfHeatedGas", "lorentzFactor", "Thermal velocity test failed!",
         mainThermalExpected,
         thermalVelocityOfHeatedGas(mainThermalArgs[1], mainThermalArgs[2],
                                    mainThermalArgs[3]).val)

CheckLorentzFactor ==
  Checks("lorentzFactor", "abrahamLorentzForce", "Lorentz factor test failed!",
         mainLorentzExpected, lorentzFactor(FDiv(c, Two)).val)

CheckAbrahamLorentz ==
  Checks("abrahamLorentzForce", "perihelionShift", "Abraham-Lorentz test failed!",
         mainAbrahamLorentzExpected,
         abrahamLorentzForce(mainAbrahamLorentzArgs[1], mainAbrahamLorentzArgs[2],
                             mainAbrahamLorentzArgs[3]).val)

CheckPerihelionShift ==
  Checks("perihelionShift", "schwarzschildRadius", "Perihelion Shift test failed!",
         mainPerihelionExpected,
         FMul(FMul(perihelionShift(mainPerihelionArgs[1], mainPerihelionArgs[2],
                                   mainPerihelionArgs[3]).val, secondsInADay),
              FromInt(59)))

CheckSchwarzschildRadius ==
  Checks("schwarzschildRadius", "success", "Schwarzshild radius test failed!",
         mainSchwarzschildExpected, schwarzschildRadius(massOfTheEarth).val)

\* fmt.Println("All tests completed successfully!"), and main returns
MainSuccess ==
  /\ mpc = "success"
  /\ output' = Append(output, <<"All tests completed successfully!">>)
  /\ mpc' = "done"
  /\ UNCHANGED <<globals, caller, threads, expected, actual, status, checked, broken>>

NextMain ==
  \/ MainBegin
  \/ CheckTsiolkovskyDeltaV
  \/ CheckPhotonEnergy
  \/ CheckThermalVelocity
  \/ CheckLorentzFactor
  \/ CheckAbrahamLorentz
  \/ CheckPerihelionShift
  \/ CheckSchwarzschildRadius
  \/ MainSuccess

SpecMain == InitMain /\ [][NextMain]_vars

\* the position in main of the first check that does not match, one past the
\* last check when all match
FirstMismatch ==
  LET failing == {i \in DOMAIN mainOrder : mainOrder[i] \in broken}
  IN  IF failing = {} THEN Len(mainOrder) + 1
      ELSE CHOOSE i \in failing : \A k \in failing : i <= k

Printed(line) == \E i \in DOMAIN output : output[i] = line

mainSuccessMessage == <<"All tests completed successfully!">>

\* C22: main runs its seven checks in the fixed order Tsiolkovsky, photon
\* energy, thermal velocity, Lorentz factor, Abraham-Lorentz, perihelion shift,
\* Schwarzschild radius; at the first check whose actual value differs from
\* the expected literal it exits with status 1 and no later check runs, and it
\* prints the success message if and only if all seven checks matched.  With
\* the repository's formulas all seven match.
C22_Harness ==
  /\ Len(checked) <= Len(mainOrder)
  /\ checked = SubSeq(mainOrder, 1, Len(checked))
  /\ Len(checked) <= FirstMismatch
  /\ status = 1 <=> mpc = "exited"
  /\ mpc = "exited" =>
       /\ Len(checked) = FirstMismatch
       /\ ~FEq(expected, actual)
       /\ output[Len(output)] = <<"Calculated: ", actual>>
       /\ output[Len(output) - 1] = <<"Expected: ", expected>>
  /\ Printed(mainSuccessMessage) <=> mpc = "done"
  /\ mpc = "done" => Len(checked) = Len(mainOrder) /\ broken = {} /\ status = 0
  /\ broken = {} => mpc # "exited"

\* the Lorentz factor and the perihelion shift are wrong: main has exited with
\* status 1 at the fourth check, after three that matched, without the success
\* message
C22_Witness ==
  /\ broken = {"lorentzFactor", "perihelionShift"}
  /\ mpc = "exited" /\ status = 1
  /\ checked = SubSeq(mainOrder, 1, 4)
  /\ Printed(<<"Lorentz factor test failed!">>)
  /\ ~Printed(mainSuccessMessage)

\* what lorentzFactor returns for the opposite of the velocity of the call
OfOpposite == lorentzFactor(FNeg(args[1])).val

\* C23 as the spec states it: lorentzFactor(-v) == lorentzFactor(v) for every v.
C23_EqualForOpposite == Called("lorentzFactor") => FEq(OfOpposite, result)

\* C23: lorentzFactor is even in v: for every v, lorentzFactor(-v) and
\* lorentzFactor(v) are the same float64, equal under == unless it is
\* not-a-number (superluminal or NaN v), which == equals to nothing.
\* lorentzFactor(-c) returns the same 0.0 as lorentzFactor(c), through the
\* sqrtFactor == 0.0 check where lorentzFactor(c) returns at v == c, and
\* 1 / sqrtFactor is never evaluated with sqrtFactor == 0.
C23_Even ==
  Called("lorentzFactor") =>
    /\ OfOpposite = result
    /\ ~IsNaN(result) => FEq(OfOpposite, result)
    /\ IsNaN(result) => ~FEq(OfOpposite, result)
    /\ args[1] = c => result = PosZero /\ trace = <<>>
    /\ args[1] = FNeg(c) =>
         result = PosZero /\ Len(trace) = 2 /\ trace[2] = <<"sqrt", PosZero>>
    /\ Len(trace) = 3 => trace[3][2] = One /\ ~FEq(trace[3][3], PosZero)

\* lorentzFactor(-c) has returned 0.0 after the square root of 0
C23_Witness ==
  /\ Called("lorentzFactor")
  /\ args[1] = FNeg(c)
  /\ result = PosZero /\ OfOpposite = PosZero
  /\ Len(trace) = 2 /\ trace[2] = <<"sqrt", PosZero>>
====
